---- MODULE Spec2Model ----
(***************************************************************************)
(* Model of src/hf_dataset_client.py: class HFDatasetClient, a thin client *)
(* over a remote dataset repository (upload, upload_folder, list_files,    *)
(* download, delete).                                                      *)
(*                                                                         *)
(* Strings are sequences of one-character strings, so that os.path.join,   *)
(* os.path.relpath, os.path.dirname and str.replace are computed character *)
(* by character, as the library computes them.  Both host platforms are    *)
(* modelled: sep is os.sep, "/" (posixpath) or "\\" (ntpath).              *)
(*                                                                         *)
(* A behaviour constructs the client and then either makes up to MaxCalls  *)
(* calls of upload, list_files, download and delete, in any order, or      *)
(* makes one call of upload_folder, stepped file by file.                  *)
(***************************************************************************)
EXTENDS Integers, Sequences, FiniteSets

\* ------------------------------------------------------------------ bounds
\* Number of upload, list_files, download and delete calls in a behaviour.
MaxCalls == 3
\* Number of files in the directory tree given to upload_folder.
MaxFiles == 3
\* Nesting depth of the directories of that tree.
MaxDepth == 2

VARIABLES
    sep,        \* os.sep of the host platform
    client,     \* "none" (not constructed), "ok", "failed" (__init__ raised)
    token,      \* self.token
    repo_id,    \* self.repo_id
    api,        \* TRUE once self.api = HfApi(...) has been created
    ctorError,  \* message of the ValueError raised by __init__, or "none"
    siblings,   \* the remote repository: sequence of [rfilename |-> string]
    ldirs,      \* local directories (lists of components) under the cwd
    lfiles,     \* local files: set of [path |-> components, content |-> string]
    tmpfiles,   \* temporary download artifacts left on disk (by repo path)
    op,         \* name of the operation called last ("none" before any)
    args,       \* its arguments
    ret,        \* its boolean result
    listRet,    \* the result of list_files
    raised,     \* TRUE iff the call raised to its caller
    fault,      \* TRUE iff a fault occurred during the call
    rcalls,     \* remote-capability invocations made by the call
    fetched,    \* download: TRUE iff hf_hub_download returned a temp file
    ncalls,     \* calls made so far
    pc,         \* "idle", or "walk" while upload_folder is inside its loop
    walk,       \* upload_folder: what os.walk yields, one entry per file
    widx,       \* upload_folder: index in walk of the next file
    uploads     \* upload_folder: log of the upload calls it issued

vars == <<sep, client, token, repo_id, api, ctorError, siblings, ldirs, lfiles,
          tmpfiles, op, args, ret, listRet, raised, fault, rcalls, fetched,
          ncalls, pc, walk, widx, uploads>>

clientVars == <<client, token, repo_id, api, ctorError>>
localVars == <<ldirs, lfiles, tmpfiles, fetched>>
folderVars == <<pc, walk, widx, uploads>>

\* ------------------------------------------------------------ string helpers
StartsWith(s, c) == Len(s) > 0 /\ s[1] = c

EndsWith(s, c) == Len(s) > 0 /\ s[Len(s)] = c

\* str.replace(old, new) for one-character old and new.
replace(s, old, new) ==
    IF s = <<>> THEN <<>>
    ELSE [i \in 1..Len(s) |-> IF s[i] = old THEN new ELSE s[i]]

\* The characters the platform's path module treats as separators:
\* posixpath "/" only, ntpath "\\" and the alternative "/".
IsSep(c) == c = sep \/ (sep = "\\" /\ c = "/")

\* os.path.join(a, b), for paths without a drive letter.
join(a, b) ==
    IF sep = "/"
    THEN IF StartsWith(b, "/") THEN b
         ELSE IF a = <<>> \/ EndsWith(a, "/") THEN a \o b
         ELSE a \o <<"/">> \o b
    ELSE IF Len(b) > 0 /\ IsSep(b[1]) THEN b
         ELSE IF a # <<>> /\ ~IsSep(a[Len(a)]) THEN a \o <<"\\">> \o b
         ELSE a \o b

\* The components of a path: split at the separators, empty and "."
\* components dropped (os.path.normpath).
RECURSIVE splitFrom(_, _, _, _)
splitFrom(s, i, cur, acc) ==
    LET keep(c) == IF c = <<>> \/ c = <<".">> THEN acc ELSE Append(acc, c)
    IN  IF i > Len(s) THEN keep(cur)
        ELSE IF IsSep(s[i]) THEN splitFrom(s, i + 1, <<>>, keep(cur))
        ELSE splitFrom(s, i + 1, Append(cur, s[i]), acc)

parts(s) == splitFrom(s, 1, <<>>, <<>>)

\* Components joined by a separator character.
RECURSIVE joinWith(_, _)
joinWith(cs, c) ==
    IF cs = <<>> THEN <<>>
    ELSE IF Len(cs) = 1 THEN cs[1]
    ELSE cs[1] \o <<c>> \o joinWith(Tail(cs), c)

RECURSIVE commonLen(_, _)
commonLen(p, q) ==
    IF p = <<>> \/ q = <<>> \/ Head(p) # Head(q) THEN 0
    ELSE 1 + commonLen(Tail(p), Tail(q))

\* os.path.relpath(path, start), both relative to the same working directory.
relpath(path, start) ==
    LET pl == parts(path)
        sl == parts(start)
        i == commonLen(pl, sl)
        ups == [k \in 1..(Len(sl) - i) |-> <<".", ".">>]
        rel == (IF Len(sl) = i THEN <<>> ELSE ups) \o SubSeq(pl, i + 1, Len(pl))
    IN  IF rel = <<>> THEN <<".">> ELSE joinWith(rel, sep)

\* os.path.dirname(p): everything before the last separator, trailing
\* separators removed unless the head is separators only.
RECURSIVE rstripSep(_)
rstripSep(s) ==
    IF s # <<>> /\ IsSep(s[Len(s)]) THEN rstripSep(SubSeq(s, 1, Len(s) - 1))
    ELSE s

dirname(p) ==
    LET idx == {i \in 1..Len(p) : IsSep(p[i])}
        last == IF idx = {} THEN 0 ELSE CHOOSE i \in idx : \A j \in idx : j <= i
        head == SubSeq(p, 1, last)
    IN  IF rstripSep(head) = <<>> THEN head ELSE rstripSep(head)

\* os.path.basename(p).
basename(p) ==
    LET idx == {i \in 1..Len(p) : IsSep(p[i])}
        last == IF idx = {} THEN 0 ELSE CHOOSE i \in idx : \A j \in idx : j <= i
    IN  SubSeq(p, last + 1, Len(p))

\* ------------------------------------------------------------ construction
\* An environment variable: unset (os.getenv gives None) or set to a string.
Unset == [isset |-> FALSE, val |-> <<>>]

EnvValues == {Unset, [isset |-> TRUE, val |-> <<>>], [isset |-> TRUE, val |-> <<"t">>]}

\* Python truthiness of os.getenv's result: None and "" are falsy.
Truthy(v) == v.isset /\ v.val # <<>>

\* Remote paths used by the direct calls.
RepoX == <<"x">>

RepoVY == <<"v", "/", "y">>

RepoPaths == {RepoX, RepoVY}

\* The repository when the program starts: empty, or holding one file.
InitialRepos == {<<>>, <<[rfilename |-> RepoX]>>}

Init ==
    /\ sep \in {"/", "\\"}
    /\ client = "none"
    /\ token = Unset
    /\ repo_id = Unset
    /\ api = FALSE
    /\ ctorError = "none"
    /\ siblings \in InitialRepos
    /\ ldirs = {}
    /\ lfiles = {}
    /\ tmpfiles = {}
    /\ op = "none"
    /\ args = <<>>
    /\ ret = FALSE
    /\ listRet = <<>>
    /\ raised = FALSE
    /\ fault = FALSE
    /\ rcalls = 0
    /\ fetched = FALSE
    /\ ncalls = 0
    /\ pc = "idle"
    /\ walk = <<>>
    /\ widx = 0
    /\ uploads = <<>>

\* __init__ that checks HF_TOKEN only.
InitChecksTokenOnly(t, r) ==
    IF ~Truthy(t) THEN "Environment variable HF_TOKEN is not set."
    ELSE "none"

\* The checks of __init__: the message of the ValueError raised, or "none".
InitChecks(t, r) ==
    IF ~Truthy(t) THEN "Environment variable HF_TOKEN is not set."
    ELSE IF ~Truthy(r) THEN "Environment variable HF_REPO_ID is not set."
    ELSE "none"

\* HFDatasetClient(): reads HF_TOKEN and HF_REPO_ID, raises ValueError when
\* either is falsy, and creates the HfApi handle only after both checks.
Construct ==
    /\ client = "none"
    /\ \E t \in EnvValues, r \in EnvValues :
        /\ token' = t
        /\ repo_id' = r
        /\ ctorError' = InitChecks(t, r)
        /\ client' = IF InitChecks(t, r) = "none" THEN "ok" ELSE "failed"
        /\ api' = (InitChecks(t, r) = "none")
    /\ UNCHANGED <<sep, siblings, localVars, op, args, ret, listRet, raised,
                   fault, rcalls, ncalls, folderVars>>

\* ------------------------------------------------------- the remote repository
\* [item.rfilename for item in info.siblings]
rfilenames(sibs) ==
    IF sibs = <<>> THEN <<>> ELSE [i \in 1..Len(sibs) |-> sibs[i].rfilename]

InRepo(p) == \E i \in 1..Len(siblings) : siblings[i].rfilename = p

\* The repository after a successful upload_file to path p.
repoAdd(p) == IF InRepo(p) THEN siblings ELSE Append(siblings, [rfilename |-> p])

\* The repository after a successful delete_file of path p.
repoDel(p) == SelectSeq(siblings, LAMBDA e : e.rfilename # p)

\* ------------------------------------------------------------------- upload
\* upload that calls the remote capability again after a failed attempt.
uploadRetries(local_path, repo_path, f, n) ==
    /\ rcalls' = IF f THEN n + 2 ELSE n + 1
    /\ fault' = f
    /\ raised' = FALSE
    /\ siblings' = IF f THEN siblings ELSE repoAdd(repo_path)
    /\ ret' = ~f

\* upload that lets the fault of the remote capability escape.
uploadPropagates(local_path, repo_path, f, n) ==
    /\ rcalls' = n + 1
    /\ fault' = f
    /\ raised' = f
    /\ siblings' = IF f THEN siblings ELSE repoAdd(repo_path)
    /\ ret' = ~f

\* upload(local_path, repo_path): one api.upload_file call inside try; f is
\* TRUE iff that call raises; n is the number of remote invocations the
\* enclosing call made before.  Returns True from the try body, False after
\* the except clause; nothing is re-raised.
upload(local_path, repo_path, f, n) ==
    /\ rcalls' = n + 1
    /\ fault' = f
    /\ raised' = FALSE
    /\ siblings' = IF f THEN siblings ELSE repoAdd(repo_path)
    /\ ret' = ~f

\* A method can be called on a constructed client that is not inside another
\* call (the client is single-threaded).  What is explored is bounded: up to
\* MaxCalls calls, and none after an upload_folder call.
CanCall == client = "ok" /\ pc = "idle" /\ op # "upload_folder" /\ ncalls < MaxCalls

\* Local files given to a direct upload call.
LocalSources == {<<"m">>}

UploadCall ==
    /\ CanCall
    /\ \E lp \in LocalSources, rp \in RepoPaths, f \in BOOLEAN :
        /\ upload(lp, rp, f, 0)
        /\ op' = "upload"
        /\ args' = <<lp, rp>>
    /\ ncalls' = ncalls + 1
    /\ UNCHANGED <<sep, clientVars, localVars, listRet, folderVars>>

\* --------------------------------------------------------------- list_files
\* list_files that lets the fault of the metadata fetch escape.
list_filesPropagates(f) ==
    /\ rcalls' = 1
    /\ fault' = f
    /\ raised' = f
    /\ listRet' = IF f THEN <<>> ELSE rfilenames(siblings)

\* list_files(): one api.dataset_info call; f is TRUE iff the fetch (or the
\* reading of info.siblings) raises.  Returns the rfilename of every sibling,
\* or [] from the except clause.
list_files(f) ==
    /\ rcalls' = 1
    /\ fault' = f
    /\ raised' = FALSE
    /\ listRet' = IF f THEN <<>> ELSE rfilenames(siblings)

ListFilesCall ==
    /\ CanCall
    /\ \E f \in BOOLEAN : list_files(f)
    /\ op' = "list_files"
    /\ args' = <<>>
    /\ ncalls' = ncalls + 1
    /\ UNCHANGED <<sep, clientVars, siblings, localVars, ret, folderVars>>

\* ------------------------------------------------------------------- delete
\* delete(repo_path): one api.delete_file call inside try; the call raises
\* when f is TRUE or the path is not in the repository.
delete(repo_path, f) ==
    LET failed == f \/ ~InRepo(repo_path)
    IN  /\ rcalls' = 1
        /\ fault' = failed
        /\ raised' = FALSE
        /\ siblings' = IF failed THEN siblings ELSE repoDel(repo_path)
        /\ ret' = ~failed

DeleteCall ==
    /\ CanCall
    /\ \E rp \in RepoPaths, f \in BOOLEAN :
        /\ delete(rp, f)
        /\ op' = "delete"
        /\ args' = <<rp>>
    /\ ncalls' = ncalls + 1
    /\ UNCHANGED <<sep, clientVars, localVars, listRet, folderVars>>

\* ----------------------------------------------------------------- download
\* Local paths requested by download calls: a bare file name, a file in a
\* directory, a file two directories deep, and a name that may be a directory.
LocalTargets ==
    { <<"f">>, <<"o", "/", "f">>, <<"o", "/", "n", "/", "f">>, <<"o">> }

Prefixes(cs) == {SubSeq(cs, 1, k) : k \in 1..Len(cs)}

IsFile(cs) == \E e \in lfiles : e.path = cs

\* os.makedirs(d, exist_ok=True) raises for the empty name
\* (FileNotFoundError) and when a component exists as a regular file.
makedirsRaises(d) ==
    d = <<>> \/ \E p \in Prefixes(parts(d)) : IsFile(p)

\* The directories after os.makedirs(d, exist_ok=True) returned.
makedirs(d) == ldirs \cup Prefixes(parts(d))

\* shutil.move(tmp, dst): where the file lands; into dst when dst is a
\* directory, at dst otherwise.
moveTarget(tmp, dst, dirs) ==
    IF parts(dst) \in dirs THEN Append(parts(dst), basename(tmp)) ELSE parts(dst)

\* shutil.move raises when dst is a directory that already holds an entry
\* of the temp file's name.
moveRaises(tmp, dst, dirs) ==
    /\ parts(dst) \in dirs
    /\ (IsFile(moveTarget(tmp, dst, dirs)) \/ moveTarget(tmp, dst, dirs) \in dirs)

\* download(repo_path, local_path): hf_hub_download (raises when f is TRUE
\* or the path is not in the repository) leaves a temp file; then
\* os.makedirs(os.path.dirname(local_path)) and shutil.move run inside the
\* same try.  The except clause logs and returns False; it removes nothing.
download(repo_path, local_path, f) ==
    LET fetchOk == ~f /\ InRepo(repo_path)
        d == dirname(local_path)
        mkOk == fetchOk /\ ~makedirsRaises(d)
        dirs == IF mkOk THEN makedirs(d) ELSE ldirs
        mvOk == mkOk /\ ~moveRaises(repo_path, local_path, dirs)
        target == moveTarget(repo_path, local_path, dirs)
    IN  /\ rcalls' = 1
        /\ fetched' = fetchOk
        /\ ldirs' = dirs
        /\ lfiles' = IF mvOk
                     THEN {e \in lfiles : e.path # target}
                          \cup {[path |-> target, content |-> repo_path]}
                     ELSE lfiles
        /\ tmpfiles' = IF fetchOk /\ ~mvOk THEN tmpfiles \cup {repo_path}
                       ELSE IF mvOk THEN tmpfiles \ {repo_path}
                       ELSE tmpfiles
        /\ fault' = ~mvOk
        /\ raised' = FALSE
        /\ ret' = mvOk

DownloadCall ==
    /\ CanCall
    /\ \E rp \in RepoPaths, lp \in LocalTargets, f \in BOOLEAN :
        /\ download(rp, lp, f)
        /\ op' = "download"
        /\ args' = <<rp, lp>>
    /\ ncalls' = ncalls + 1
    /\ UNCHANGED <<sep, clientVars, siblings, listRet, folderVars>>

\* ------------------------------------------------------------ upload_folder
\* File and directory names of the trees: two visible names, a hidden one,
\* and one holding a backslash (a legal file name where os.sep is "/").
NameA == <<"a">>

NameB == <<"b">>

NameHidden == <<".", "a">>

NameBackslash == <<"a", "\\", "b">>

DirD == <<"d">>

DirHidden == <<".", "d">>

\* A chain of k nested directories named d.
DirChain(k) == [i \in 1..k |-> DirD]

\* The files a tree is drawn from: dirs are the directories from the tree
\* root down to the file, name is the file's own name.
TreeFiles ==
    {[dirs |-> <<>>, name |-> n] : n \in {NameA, NameB, NameHidden, NameBackslash}}
    \cup {[dirs |-> DirChain(k), name |-> n] : k \in 1..MaxDepth, n \in {NameA, NameHidden}}
    \cup {[dirs |-> <<DirHidden>>, name |-> NameA]}

\* A name the platform's file system can hold: no separator inside.
ValidName(n) == \A i \in 1..Len(n) : ~IsSep(n[i])

Trees ==
    {t \in SUBSET TreeFiles :
        Cardinality(t) <= MaxFiles /\ \A e \in t : ValidName(e.name)}

IsPrefix(p, q) == Len(p) <= Len(q) /\ SubSeq(q, 1, Len(p)) = p

\* os.walk(top) is top-down and depth-first: a directory's files come
\* before those of its subdirectories, and a subtree is yielded in one
\* piece.  The order inside a directory is the file system's.
TopDown(w) ==
    /\ \A i, j \in 1..Len(w) :
        i < j => ~(IsPrefix(w[j].dirs, w[i].dirs) /\ w[j].dirs # w[i].dirs)
    /\ \A i, j, k \in 1..Len(w) :
        (i < j /\ j < k) =>
            \A n \in 0..Len(w[i].dirs) :
                LET pre == SubSeq(w[i].dirs, 1, n)
                IN  IsPrefix(pre, w[k].dirs) => IsPrefix(pre, w[j].dirs)

\* The sequences os.walk can yield for tree t, flattened to one entry a file.
Walks(t) ==
    {w \in [1..Cardinality(t) -> t] :
        (\A i, j \in 1..Cardinality(t) : i # j => w[i] # w[j]) /\ TopDown(w)}

\* The local folders passed to upload_folder: two existing directories and
\* a path that is no directory.
FolderR == <<"r">>

FolderRS == <<"r", "/", "s">>

FolderMissing == <<"q">>

isdir(p) == p \in {FolderR, FolderRS}

\* The remote base paths passed to upload_folder ("" is the default).
Bases == {<<>>, <<"v">>, <<"v", "/", "w">>}

\* file.startswith(".")
IsHidden(name) == StartsWith(name, ".")

\* A walk that skips nothing.
SkippedNever(e) == FALSE

\* A walk that also skips what lies under a hidden directory.
SkippedUnderHiddenDir(e) ==
    IsHidden(e.name) \/ \E i \in 1..Len(e.dirs) : IsHidden(e.dirs[i])

\* The test of the loop body that makes it `continue`.
Skipped(e) == IsHidden(e.name)

\* The root os.walk yields for the directory reached through dirs:
\* os.walk builds it with os.path.join, one level at a time.
RECURSIVE WalkRoot(_, _)
WalkRoot(top, dirs) ==
    IF dirs = <<>> THEN top ELSE WalkRoot(join(top, Head(dirs)), Tail(dirs))

\* local_path = os.path.join(root, file)
LocalPath(local_folder, e) == join(WalkRoot(local_folder, e.dirs), e.name)

\* rel_path = os.path.relpath(local_path, local_folder)
\* repo_path = os.path.join(repo_base_path, rel_path).replace("\\", "/")
RepoPath(local_folder, repo_base_path, e) ==
    replace(join(repo_base_path, relpath(LocalPath(local_folder, e), local_folder)),
            "\\", "/")

\* A loop that goes on to the next file whatever upload returned.
AfterUploadGoesOn(ok) == "walk"

\* `if not ok: return False`: where the loop goes after upload returned ok.
AfterUpload(ok) == IF ok THEN "walk" ELSE "idle"

\* upload_folder(local_folder, repo_base_path) up to the loop: the isdir
\* check returns False at once; otherwise os.walk starts.  The call explored
\* is the first of the behaviour.
UploadFolderCall ==
    /\ CanCall /\ ncalls = 0
    /\ \E local_folder \in {FolderR, FolderRS, FolderMissing}, base \in Bases :
        /\ args' = <<local_folder, base>>
        /\ IF ~isdir(local_folder)
           THEN /\ pc' = "idle"
                /\ walk' = <<>>
                /\ widx' = 0
           ELSE /\ pc' = "walk"
                /\ \E t \in Trees : walk' \in Walks(t)
                /\ widx' = 1
    /\ op' = "upload_folder"
    /\ ret' = FALSE
    /\ fault' = FALSE
    /\ raised' = FALSE
    /\ rcalls' = 0
    /\ uploads' = <<>>
    /\ ncalls' = ncalls + 1
    /\ UNCHANGED <<sep, clientVars, siblings, localVars, listRet>>

\* The loop body for a file the walk skips.
WalkSkip ==
    /\ pc = "walk" /\ widx <= Len(walk) /\ Skipped(walk[widx])
    /\ widx' = widx + 1
    /\ UNCHANGED <<sep, clientVars, siblings, localVars, op, args, ret, listRet,
                   raised, fault, rcalls, ncalls, pc, walk, uploads>>

\* The loop body for a file that is uploaded: the paths, the upload call,
\* and the return of False when upload reported failure.
WalkUpload ==
    /\ pc = "walk" /\ widx <= Len(walk) /\ ~Skipped(walk[widx])
    /\ \E f \in BOOLEAN :
        LET e == walk[widx]
            local_path == LocalPath(args[1], e)
            repo_path == RepoPath(args[1], args[2], e)
        IN  /\ upload(local_path, repo_path, f, rcalls)
            /\ uploads' = Append(uploads, [file |-> e, local |-> local_path,
                                           repo |-> repo_path, ok |-> ret'])
            /\ pc' = AfterUpload(ret')
            /\ widx' = widx + 1
    /\ UNCHANGED <<sep, clientVars, localVars, op, args, listRet, ncalls, walk>>

\* An exception raised in the loop body outside the remote call (computing
\* or printing the paths of a file to upload): the except clause of
\* upload_folder logs it and returns False.
WalkFault ==
    /\ pc = "walk" /\ widx <= Len(walk) /\ ~Skipped(walk[widx])
    /\ pc' = "idle"
    /\ ret' = FALSE
    /\ fault' = TRUE
    /\ UNCHANGED <<sep, clientVars, siblings, localVars, op, args, listRet,
                   raised, rcalls, ncalls, walk, widx, uploads>>

\* The walk is exhausted: "Folder upload completed!", return True.
WalkDone ==
    /\ pc = "walk" /\ widx > Len(walk)
    /\ pc' = "idle"
    /\ ret' = TRUE
    /\ UNCHANGED <<sep, clientVars, siblings, localVars, op, args, listRet,
                   raised, fault, rcalls, ncalls, walk, widx, uploads>>

Next ==
    \/ Construct
    \/ UploadCall
    \/ ListFilesCall
    \/ DownloadCall
    \/ DeleteCall
    \/ UploadFolderCall
    \/ WalkSkip
    \/ WalkUpload
    \/ WalkFault
    \/ WalkDone

Spec == Init /\ [][Next]_vars

\* ------------------------------------------------------------------ claims
\* What the properties say about a finished upload_folder call.
FolderDone == op = "upload_folder" /\ pc = "idle"

\* The log entries of the upload calls issued for file e.
UploadsOf(e) == {i \in 1..Len(uploads) : uploads[i].file = e}

\* The files of the tree that was walked.
WalkedTree == {walk[i] : i \in 1..Len(walk)}

\* C1: construction raises the configuration error whenever HF_TOKEN is
\* absent or empty, whatever HF_REPO_ID is, and whenever HF_REPO_ID is absent
\* or empty, whatever HF_TOKEN is; it succeeds only when both are non-empty,
\* and a failed construction has created no HfApi handle.
C1_ConstructionFailsFast ==
    client # "none" =>
        /\ (client = "failed") <=>
              (~token.isset \/ token.val = <<>> \/ ~repo_id.isset \/ repo_id.val = <<>>)
        /\ client = "failed" => (api = FALSE /\ ctorError # "none")
        /\ client = "ok" => (api = TRUE /\ ctorError = "none")

\* A construction with a good token and no repository identifier failed.
C1_Witness ==
    /\ client = "failed"
    /\ token.isset /\ token.val # <<>>
    /\ ~repo_id.isset
    /\ api = FALSE

\* C2: upload, download and delete never raise to the caller; a fault during
\* the call gives the result False, and the result is True exactly when no
\* fault occurred.
C2_FaultsBecomeFalse ==
    op \in {"upload", "download", "delete"} =>
        /\ raised = FALSE
        /\ ret = ~fault

\* An upload whose remote call raised returned False to its caller.
C2_Witness ==
    op = "upload" /\ fault /\ rcalls = 1 /\ ret = FALSE /\ raised = FALSE

\* C3: upload_folder never calls upload for a file whose name starts with
\* ".", whatever the tree and the depth of the file.
C3_HiddenFilesSkipped ==
    op = "upload_folder" =>
        \A i \in 1..Len(uploads) :
            /\ ~StartsWith(uploads[i].file.name, ".")
            /\ ~StartsWith(basename(uploads[i].local), ".")

\* A finished, successful walk of a tree that holds a hidden file two
\* directories deep and another file that was uploaded.
C3_Witness ==
    /\ FolderDone /\ ret = TRUE
    /\ \E e \in WalkedTree : StartsWith(e.name, ".") /\ Len(e.dirs) >= 2
    /\ Len(uploads) >= 1

\* C4: for a non-empty base B, every upload issued by upload_folder has the
\* local path R/<relative path> and the remote path B/<relative path>, the
\* components of the relative path separated by "/".
C4_RemotePathIsBaseSlashRelative ==
    (op = "upload_folder" /\ args[2] # <<>>) =>
        \A i \in 1..Len(uploads) :
            LET e == uploads[i].file
                rel == Append(e.dirs, e.name)
            IN  /\ uploads[i].local = joinWith(<<args[1]>> \o rel, sep)
                /\ uploads[i].repo = joinWith(<<args[2]>> \o rel, "/")

\* Restricted to files whose name holds no backslash, the paths are as
\* stated on both platforms: local R/<relative path>, remote
\* B/<relative path> with "/" between the components.
PathsRightWithoutBackslash ==
    (op = "upload_folder" /\ args[2] # <<>>) =>
        \A i \in 1..Len(uploads) :
            LET e == uploads[i].file
                rel == Append(e.dirs, e.name)
            IN  (\A k \in 1..Len(e.name) : e.name[k] # "\\") =>
                    /\ uploads[i].local = joinWith(<<args[1]>> \o rel, sep)
                    /\ uploads[i].repo = joinWith(<<args[2]>> \o rel, "/")

\* C5: upload_folder is fail-fast: a failed upload is the last one issued,
\* the call has returned False, and every upload before it succeeded and is
\* still in the repository.
C5_FailFast ==
    op = "upload_folder" =>
        \A i \in 1..Len(uploads) :
            ~uploads[i].ok =>
                /\ i = Len(uploads)
                /\ pc = "idle"
                /\ ret = FALSE
                /\ \A j \in 1..(i - 1) : uploads[j].ok /\ InRepo(uploads[j].repo)

\* A walk of three files stopped at the second: the first is uploaded, the
\* second failed, the third was never tried.
C5_Witness ==
    /\ FolderDone /\ ret = FALSE
    /\ Len(walk) = 3 /\ Len(uploads) = 2
    /\ uploads[1].ok /\ ~uploads[2].ok
    /\ InRepo(uploads[1].repo)
    /\ ~IsHidden(walk[3].name)
    /\ UploadsOf(walk[3]) = {}

\* C6: a download whose remote fetch succeeded reports success, has every
\* intermediate directory of the requested local path in place, and has
\* moved the content to exactly that path (no temp file is left).
C6_DownloadLandsAtRequestedPath ==
    (op = "download" /\ fetched) =>
        /\ ret = TRUE
        /\ \A k \in 1..(Len(parts(args[2])) - 1) : SubSeq(parts(args[2]), 1, k) \in ldirs
        /\ [path |-> parts(args[2]), content |-> args[1]] \in lfiles
        /\ args[1] \notin tmpfiles

\* C7: when download has returned, the temp file of the fetch has been
\* moved or removed: none is left behind.
C7_NoOrphanedTempFile ==
    op = "download" => args[1] \notin tmpfiles

\* C8: list_files never raises; it returns the rfilename of every sibling,
\* in order, when the metadata fetch succeeds, and the empty sequence when
\* the fetch fails.
C8_ListOrEmpty ==
    op = "list_files" =>
        /\ raised = FALSE
        /\ fault => listRet = <<>>
        /\ ~fault =>
              /\ Len(listRet) = Len(siblings)
              /\ \A i \in 1..Len(siblings) : listRet[i] = siblings[i].rfilename

\* A failed fetch on a repository that holds files returned the empty
\* sequence, as a successful fetch on an empty repository does.
C8_Witness ==
    op = "list_files" /\ fault /\ Len(siblings) >= 1 /\ listRet = <<>> /\ ~raised

\* C9: no retries: a call of upload, download, delete or list_files invokes
\* the remote capability at most once, and upload_folder invokes the remote
\* upload once for each upload it issues, at most once a file of the tree.
C9_NoRetries ==
    /\ op \in {"upload", "download", "delete", "list_files"} => rcalls <= 1
    /\ op = "upload_folder" =>
        /\ rcalls = Len(uploads)
        /\ \A i \in 1..Len(uploads) : uploads[i].file \in WalkedTree
        /\ \A e \in WalkedTree : Cardinality(UploadsOf(e)) <= 1

\* An upload_folder call whose second upload failed made two remote calls.
C9_Witness ==
    /\ FolderDone /\ ret = FALSE /\ fault
    /\ Len(uploads) = 2 /\ rcalls = 2

====
